---- MODULE Spec2Model ----
(***************************************************************************)
(* SimpleHost (src/main.go): an HTTP file relay.  A client uploads a file, *)
(* the server stores it under a generated name, registers the name with an *)
(* expiry time, and a one-shot timer later deletes file and entry.         *)
(*                                                                         *)
(* Every HTTP request runs in its own goroutine, so each handler is cut    *)
(* into steps at the points where it touches shared state: the wall clock, *)
(* the storage directory, the registry map s.files and its mutex s.mu.     *)
(* Time is counted in ticks; TicksPerSecond ticks make one Unix second.    *)
(***************************************************************************)
EXTENDS Integers, Sequences, FiniteSets, TLC

\* ---- bounds of the model ----
\* the clock stops at MaxTime
MaxTime == 4
\* ticks in one Unix second
TicksPerSecond == 2
\* the time to live (60 * time.Minute in the source), in ticks
expiryDuration == 2
\* the size of one chunk of an uploaded body, in MiB
ChunkMiB == 8
\* the longest original file name of the runs over all short file names
MaxNameLen == 3

\* the argument 10 << 20 of ParseMultipartForm, in MiB
maxMemory == 10

\* upload requests and download requests; each request is served once
Uploads == {1, 2}
Downloads == {1, 2}

\* request inputs
Methods == {"POST", "GET", "PUT"}
Forms == {"ok", "malformed", "nofile"}
\* original file names, as sequences of characters
Filenames == { <<"r", ".", "p">>, <<"r">> }
\* every original file name of at most MaxNameLen characters
NameChars == {"r", ".", "/"}
ShortNames == UNION { [1..n -> NameChars] : n \in 1..MaxNameLen }
\* uploaded bodies, as sequences of chunks
Contents == { <<1, 2>>, <<3>> }

storagePath == "./uploads"

VARIABLES
    now,    \* wall clock, in ticks
    mu,     \* s.mu: 0 when free, u when held by the deleteFile of upload u's timer
    files,  \* s.files: registry, generated name -> expiry time
    dir,    \* storage: path -> inode
    data,   \* inode -> bytes; the inode created by upload u is u
    up,     \* per upload request: the locals of uploadHandler
    tm,     \* per upload: the timer set by time.AfterFunc and its deleteFile
    dl      \* per download request: the locals of downloadHandler

vars == <<now, mu, files, dir, data, up, tm, dl>>

\* ---- pure helpers ----

\* time.Time.Unix(): whole seconds
Unix(t) == t \div TicksPerSecond

RECURSIVE Chars(_)
\* string made of a sequence of characters
Chars(s) == IF s = <<>> THEN "" ELSE Head(s) \o Chars(Tail(s))

RECURSIVE ExtFrom(_, _)
\* filepath.Ext: scan backwards from index i for a dot, stop at a separator
ExtFrom(path, i) ==
    IF i < 1 \/ path[i] = "/" THEN ""
    ELSE IF path[i] = "." THEN Chars(SubSeq(path, i, Len(path)))
    ELSE ExtFrom(path, i - 1)

\* fmt.Sprintf("%s-%d%s", "simplehost", unix, ext)
Sprintf(unix, ext) == "simplehost" \o "-" \o ToString(unix) \o ext

\* filepath.Join(s.storagePath, fileName), for a one-segment fileName
Join(root, fileName) == root \o "/" \o fileName

\* fmt.Sprintf("/download?file=%s", newFileName)
downloadLink(newFileName) == "/download?file=" \o newFileName

\* an extension taken from the first dot of the path instead of the last
ExtFirstDot(path) ==
    LET dots == { i \in 1..Len(path) : path[i] = "." } IN
    IF dots = {} THEN ""
    ELSE Chars(SubSeq(path, CHOOSE i \in dots : \A j \in dots : i <= j, Len(path)))

\* filepath.Ext(path)
Ext(path) == ExtFrom(path, Len(path))

\* the comparison of t.After(u) with its operands exchanged
AfterSwapped(t, u) == u > t

\* t.After(u)
After(t, u) == t > u

\* writing chunk b at offset off of an open file (holes read as 0)
WriteAt(bytes, off, b) ==
    [i \in 1..(IF Len(bytes) > off + 1 THEN Len(bytes) ELSE off + 1) |->
        IF i = off + 1 THEN b
        ELSE IF i <= Len(bytes) THEN bytes[i] ELSE 0]

\* map with key k removed / set
MapDelete(m, k) == [x \in DOMAIN m \ {k} |-> m[x]]
MapSet(m, k, v) == [x \in DOMAIN m \cup {k} |-> IF x = k THEN v ELSE m[x]]

\* the size of an uploaded body, in MiB
Size(content) == Len(content) * ChunkMiB

\* r.ParseMultipartForm(maxMemory): the whole body is parsed; file parts
\* beyond maxMemory bytes are kept in temporary files instead of memory, so
\* the call fails only on a body that is not a well-formed multipart form
ParseMultipartForm(form, content, maxMem) == form # "malformed"

\* ---- initial state: NewServer over an empty storage directory ----

NoUpload == [pc |-> "idle", Method |-> "", Filename |-> <<>>, content |-> <<>>,
             newFileName |-> "", fd |-> 0, off |-> 0,
             status |-> 0, link |-> "", expiresAt |-> 0]

NoTimer == [pc |-> "none", at |-> 0]

\* seen[u] is history: how far upload u had come when the download looked the
\* name up ("none", "registered", "replied", "deleted")
NoDownload == [pc |-> "idle", fileName |-> "", exists |-> FALSE, expiryTime |-> 0,
               status |-> 0, body |-> <<>>, seen |-> [u \in Uploads |-> "none"]]

Init ==
    /\ now = 0
    /\ mu = 0
    /\ files = <<>>
    /\ dir = <<>>
    /\ data = [u \in Uploads |-> <<>>]
    /\ up = [u \in Uploads |-> NoUpload]
    /\ tm = [u \in Uploads |-> NoTimer]
    /\ dl = [d \in Downloads |-> NoDownload]

\* ---- POST /upload ----

\* uploadHandler up to the computation of newFileName (lines 61-82)
uploadHandler(u, m, form, fname, content) ==
    LET req == [up[u] EXCEPT !.Method = m] IN
    IF m # "POST"
    THEN up' = [up EXCEPT ![u] = [req EXCEPT !.pc = "done", !.status = 405]]
    ELSE IF ~ParseMultipartForm(form, content, maxMemory)
    THEN up' = [up EXCEPT ![u] = [req EXCEPT !.pc = "done", !.status = 400]]
    ELSE IF form = "nofile"
    THEN up' = [up EXCEPT ![u] = [req EXCEPT !.pc = "done", !.status = 400]]
    ELSE up' = [up EXCEPT ![u] = [req EXCEPT !.pc = "create",
                    !.Filename = fname, !.content = content,
                    !.newFileName = Sprintf(Unix(now), Ext(fname))]]

\* the "/upload" route of main: GET is answered 404, POST goes to
\* uploadHandler, any other method falls through (an empty 200 reply)
\* (requests are numbered in the order of their arrival, and none arrives so
\* late that its expiry would lie beyond MaxTime)
UploadRoute(u, m, form, fname, content) ==
    /\ up[u].pc = "idle"
    /\ \A v \in Uploads : v < u => up[v].pc # "idle"
    /\ now + expiryDuration <= MaxTime
    /\ IF m = "GET"
       THEN up' = [up EXCEPT ![u] = [@ EXCEPT !.pc = "done", !.Method = m,
                                            !.status = 404]]
       ELSE IF m = "POST"
       THEN uploadHandler(u, m, form, fname, content)
       ELSE up' = [up EXCEPT ![u] = [@ EXCEPT !.pc = "done", !.Method = m,
                                            !.status = 200]]
    /\ UNCHANGED <<now, mu, files, dir, data, tm, dl>>

\* os.Create(filePath) succeeds: a new empty file, or the existing one truncated
CreateOk(u) ==
    LET filePath == Join(storagePath, up[u].newFileName) IN
    /\ up[u].pc = "create"
    /\ IF filePath \in DOMAIN dir
       THEN /\ data' = [data EXCEPT ![dir[filePath]] = <<>>]
            /\ up' = [up EXCEPT ![u] = [@ EXCEPT !.pc = "copy", !.fd = dir[filePath]]]
            /\ UNCHANGED dir
       ELSE /\ dir' = MapSet(dir, filePath, u)
            /\ data' = [data EXCEPT ![u] = <<>>]
            /\ up' = [up EXCEPT ![u] = [@ EXCEPT !.pc = "copy", !.fd = u]]
    /\ UNCHANGED <<now, mu, files, tm, dl>>

\* os.Create(filePath) fails: 500, nothing else happens
CreateFail(u) ==
    /\ up[u].pc = "create"
    /\ up' = [up EXCEPT ![u] = [@ EXCEPT !.pc = "done", !.status = 500,
                    !.Filename = <<>>, !.content = <<>>, !.fd = 0, !.off = 0]]
    /\ UNCHANGED <<now, mu, files, dir, data, tm, dl>>

\* io.Copy(out, file): one chunk written at the descriptor's offset
CopyChunk(u) ==
    /\ up[u].pc = "copy"
    /\ data' = [data EXCEPT ![up[u].fd] =
                    WriteAt(@, up[u].off, up[u].content[up[u].off + 1])]
    /\ up' = [up EXCEPT ![u] = [@ EXCEPT !.off = @ + 1,
                !.pc = IF up[u].off + 1 = Len(up[u].content) THEN "register" ELSE "copy"]]
    /\ UNCHANGED <<now, mu, files, dir, tm, dl>>

\* a failing io.Copy that registers the name all the same
CopyFailRegistered(u) ==
    /\ up[u].pc = "copy"
    /\ files' = MapSet(files, up[u].newFileName, now + expiryDuration)
    /\ up' = [up EXCEPT ![u] = [@ EXCEPT !.pc = "done", !.status = 500,
                    !.Filename = <<>>, !.content = <<>>, !.off = 0]]
    /\ UNCHANGED <<now, mu, dir, data, tm, dl>>

\* io.Copy fails: 500, what was written so far stays on storage
CopyFail(u) ==
    /\ up[u].pc = "copy"
    /\ up' = [up EXCEPT ![u] = [@ EXCEPT !.pc = "done", !.status = 500,
                    !.Filename = <<>>, !.content = <<>>, !.off = 0]]
    /\ UNCHANGED <<now, mu, files, dir, data, tm, dl>>

\* the registration without the Unlock of line 100
RegisterNoUnlock(u) ==
    /\ up[u].pc = "register"
    /\ mu = 0
    /\ now + expiryDuration <= MaxTime
    /\ files' = MapSet(files, up[u].newFileName, now + expiryDuration)
    /\ up' = [up EXCEPT ![u] = [@ EXCEPT !.pc = "schedule",
                                        !.expiresAt = now + expiryDuration]]
    /\ mu' = u
    /\ UNCHANGED <<now, dir, data, tm, dl>>

\* s.mu.Lock(); s.files[newFileName] = time.Now().Add(expiryDuration); s.mu.Unlock()
Register(u) ==
    /\ up[u].pc = "register"
    /\ mu = 0
    /\ now + expiryDuration <= MaxTime
    /\ files' = MapSet(files, up[u].newFileName, now + expiryDuration)
    /\ up' = [up EXCEPT ![u] = [@ EXCEPT !.pc = "schedule",
                                        !.expiresAt = now + expiryDuration]]
    /\ UNCHANGED <<now, mu, dir, data, tm, dl>>

\* time.AfterFunc(expiryDuration, ...), then the 200 reply with the link
Schedule(u) ==
    /\ up[u].pc = "schedule"
    /\ now + expiryDuration <= MaxTime
    /\ tm' = [tm EXCEPT ![u] = [pc |-> "pending", at |-> now + expiryDuration]]
    /\ up' = [up EXCEPT ![u] = [@ EXCEPT !.pc = "done", !.status = 200,
                    !.link = downloadLink(up[u].newFileName), !.off = 0]]
    /\ UNCHANGED <<now, mu, files, dir, data, dl>>

\* ---- the expiry timer: deleteFile(newFileName) ----

\* the timer fires and deleteFile takes the lock (released on return)
DeleteLock(u) ==
    /\ tm[u].pc = "pending"
    /\ now >= tm[u].at
    /\ mu = 0
    /\ mu' = u
    /\ tm' = [tm EXCEPT ![u].pc = "locked"]
    /\ UNCHANGED <<now, files, dir, data, up, dl>>

\* deleteFile going on to the registry without having removed the file
DeleteRemoveSkipped(u) ==
    /\ tm[u].pc = "locked"
    /\ tm' = [tm EXCEPT ![u].pc = "removed"]
    /\ UNCHANGED <<now, mu, files, dir, data, up, dl>>

\* deleteFile dropping the registry entry also when os.Remove has failed
DeleteRemoveUnregister(u) ==
    LET filePath == Join(storagePath, up[u].newFileName) IN
    /\ tm[u].pc = "locked"
    /\ IF filePath \in DOMAIN dir
       THEN /\ dir' = MapDelete(dir, filePath)
            /\ tm' = [tm EXCEPT ![u].pc = "removed"]
            /\ UNCHANGED <<mu, files>>
       ELSE /\ tm' = [tm EXCEPT ![u].pc = "failed"]
            /\ files' = MapDelete(files, up[u].newFileName)
            /\ mu' = 0
            /\ UNCHANGED dir
    /\ UNCHANGED <<now, data, up, dl>>

\* os.Remove(filePath); on error deleteFile prints and returns.  The
\* directory is the server's own, so the removal fails only when the path
\* is not there.
DeleteRemove(u) ==
    LET filePath == Join(storagePath, up[u].newFileName) IN
    /\ tm[u].pc = "locked"
    /\ IF filePath \in DOMAIN dir
       THEN /\ dir' = MapDelete(dir, filePath)
            /\ tm' = [tm EXCEPT ![u].pc = "removed"]
            /\ UNCHANGED mu
       ELSE /\ tm' = [tm EXCEPT ![u].pc = "failed"]
            /\ mu' = 0
            /\ UNCHANGED dir
    /\ UNCHANGED <<now, files, data, up, dl>>

\* delete(s.files, fileName), return (deferred Unlock)
DeleteEntry(u) ==
    /\ tm[u].pc = "removed"
    /\ files' = MapDelete(files, up[u].newFileName)
    /\ tm' = [tm EXCEPT ![u].pc = "deleted"]
    /\ mu' = 0
    /\ UNCHANGED <<now, dir, data, up, dl>>

\* ---- GET /download?file=<fileName> ----

\* names a client asks for: a name the server has generated, no name at all,
\* or a name the server never generates
RequestNames ==
    { up[u].newFileName : u \in Uploads } \cup {"", "../x"}

\* how far upload u has come
Stage(u) ==
    IF tm[u].pc \in {"failed", "deleted"} THEN "deleted"
    ELSE IF up[u].pc = "done" /\ up[u].link # "" THEN "replied"
    ELSE IF up[u].pc = "schedule" THEN "registered"
    ELSE "none"

\* lines 140-148: the parameter check and the registry lookup under the lock
downloadHandler(d, fileName) ==
    /\ dl[d].pc = "idle"
    /\ \A e \in Downloads : e < d => dl[e].pc # "idle"
    /\ IF fileName = ""
       THEN dl' = [dl EXCEPT ![d] = [@ EXCEPT !.pc = "done", !.status = 400]]
       ELSE /\ mu = 0
            /\ dl' = [dl EXCEPT ![d] = [@ EXCEPT !.pc = "check", !.fileName = fileName,
                        !.seen = [u \in Uploads |-> Stage(u)],
                        !.exists = fileName \in DOMAIN files,
                        !.expiryTime = IF fileName \in DOMAIN files
                                       THEN files[fileName] ELSE 0]]
    /\ UNCHANGED <<now, mu, files, dir, data, up, tm>>

\* the test of line 150 with "&&" and without the negation
ExpiredWrongTest(d) == dl[d].exists /\ After(now, dl[d].expiryTime)

\* line 150: !exists || time.Now().After(expiryTime)
Expired(d) == ~dl[d].exists \/ After(now, dl[d].expiryTime)

DownloadCheck(d) ==
    /\ dl[d].pc = "check"
    /\ IF Expired(d)
       THEN dl' = [dl EXCEPT ![d] = [@ EXCEPT !.pc = "done", !.status = 404]]
       ELSE dl' = [dl EXCEPT ![d].pc = "open"]
    /\ UNCHANGED <<now, mu, files, dir, data, up, tm>>

\* os.Open(filePath) and http.ServeFile(w, r, filePath).  The descriptor of
\* os.Open is used for Stat only; the reply is what ServeFile finds when it
\* opens the path again: 404 when the path is gone, else the file's bytes.
DownloadServe(d) ==
    LET filePath == Join(storagePath, dl[d].fileName) IN
    /\ dl[d].pc = "open"
    /\ IF filePath \in DOMAIN dir
       THEN dl' = [dl EXCEPT ![d] = [@ EXCEPT !.pc = "done", !.status = 200,
                                            !.body = data[dir[filePath]]]]
       ELSE dl' = [dl EXCEPT ![d] = [@ EXCEPT !.pc = "done", !.status = 404]]
    /\ UNCHANGED <<now, mu, files, dir, data, up, tm>>

\* ---- time ----

Tick ==
    /\ now < MaxTime
    /\ now' = now + 1
    /\ UNCHANGED <<mu, files, dir, data, up, tm, dl>>

\* uploads, expiry timers and the clock
NextUpload ==
    \/ \E u \in Uploads, m \in Methods, form \in Forms, fname \in Filenames,
          content \in Contents : UploadRoute(u, m, form, fname, content)
    \/ \E u \in Uploads : CreateOk(u)
    \/ \E u \in Uploads : CreateFail(u)
    \/ \E u \in Uploads : CopyChunk(u)
    \/ \E u \in Uploads : CopyFail(u)
    \/ \E u \in Uploads : Register(u)
    \/ \E u \in Uploads : Schedule(u)
    \/ \E u \in Uploads : DeleteLock(u)
    \/ \E u \in Uploads : DeleteRemove(u)
    \/ \E u \in Uploads : DeleteEntry(u)
    \/ Tick

SpecUpload == Init /\ [][NextUpload]_vars

\* one download request
Download(d) ==
    \/ \E fileName \in RequestNames : downloadHandler(d, fileName)
    \/ DownloadCheck(d)
    \/ DownloadServe(d)

\* A download changes nothing but its own locals and never holds the lock
\* across a step, so one download request shows everything a download can
\* meet; the second request is kept for the runs that compare two replies.
Next ==
    \/ NextUpload
    \/ Download(1)

Spec == Init /\ [][Next]_vars

\* the runs that compare two replies: two well-formed POSTs of the same
\* original file name within one second, storage does not fail, and the two
\* downloads are over before the clock moves
NextTwo ==
    \/ \E u \in Uploads, content \in Contents :
          UploadRoute(u, "POST", "ok", <<"r", ".", "p">>, content)
    \/ \E u \in Uploads : CreateOk(u)
    \/ \E u \in Uploads : CopyChunk(u)
    \/ \E u \in Uploads : Register(u)
    \/ \E u \in Uploads : Schedule(u)
    \/ \E d \in Downloads : Download(d)

SpecTwo == Init /\ [][NextTwo]_vars

\* the runs over all short file names: one well-formed POST with any original
\* file name of at most MaxNameLen characters, its timer, one download
NextName ==
    \/ \E fname \in ShortNames, content \in Contents :
          UploadRoute(1, "POST", "ok", fname, content)
    \/ CreateOk(1)
    \/ CopyChunk(1)
    \/ Register(1)
    \/ Schedule(1)
    \/ DeleteLock(1)
    \/ DeleteRemove(1)
    \/ DeleteEntry(1)
    \/ Download(1)
    \/ Tick

SpecName == Init /\ [][NextName]_vars

\* every goroutine that can take a step takes one: handlers run on, timers
\* fire, deleteFile runs to its end, and time goes on
FairSpec ==
    /\ SpecUpload
    /\ WF_vars(Tick)
    /\ \A u \in Uploads : WF_vars(CreateOk(u) \/ CreateFail(u))
    /\ \A u \in Uploads : WF_vars(CopyChunk(u) \/ CopyFail(u))
    /\ \A u \in Uploads : WF_vars(Register(u))
    /\ \A u \in Uploads : WF_vars(Schedule(u))
    /\ \A u \in Uploads : WF_vars(DeleteLock(u))
    /\ \A u \in Uploads : WF_vars(DeleteRemove(u))
    /\ \A u \in Uploads : WF_vars(DeleteEntry(u))

\* ---- vocabulary of the properties ----

\* upload u has sent its success reply
Replied(u) == up[u].pc = "done" /\ up[u].link # ""

\* upload u has published its registry entry
Registered(u) == up[u].pc = "schedule" \/ Replied(u)

\* a file exists at storageRoot/fileName
OnStorage(fileName) == Join(storagePath, fileName) \in DOMAIN dir

\* the generated names in play
Names == { up[u].newFileName : u \in Uploads } \ {""}

\* some deleteFile of that name has got past os.Remove
DeletionRan(fileName) ==
    \E u \in Uploads : /\ up[u].newFileName = fileName
                       /\ tm[u].pc \in {"removed", "failed", "deleted"}

\* ---- properties ----

\* C1: a download of the returned link, issued after the upload's success
\* reply and finished before expiresAt, returns exactly the uploaded bytes.
C1_RoundTrip ==
    \A d \in Downloads, u \in Uploads :
        ( /\ dl[d].pc = "done"
          /\ dl[d].seen[u] = "replied"
          /\ dl[d].fileName = up[u].newFileName
          /\ now < up[u].expiresAt )
        => (dl[d].status = 200 /\ dl[d].body = up[u].content)

\* C2: a download whose expiry check happens at now >= expiresAt (equality
\* included) returns NotFound, whether or not the bytes are still on storage.
C2_ExpiredAtOrAfter ==
    [][ \A d \in Downloads :
          ( /\ dl[d].pc = "check"
            /\ dl'[d].pc # "check"
            /\ dl[d].exists
            /\ now >= dl[d].expiryTime )
          => (dl'[d].pc = "done" /\ dl'[d].status = 404) ]_vars

\* C2 as amended: a download whose expiry check happens strictly after
\* expiresAt returns NotFound, whether or not the bytes are still on storage.
C2_ExpiredAfter ==
    [][ \A d \in Downloads :
          ( /\ dl[d].pc = "check"
            /\ dl'[d].pc # "check"
            /\ dl[d].exists
            /\ now > dl[d].expiryTime )
          => (dl'[d].pc = "done" /\ dl'[d].status = 404) ]_vars

\* an expired entry was refused while entry and bytes were both still there
\* (no deleteFile of the name has started, so the refusal came from the check)
C2_Witness ==
    \E d \in Downloads :
        /\ dl[d].pc = "done" /\ dl[d].status = 404 /\ dl[d].exists
        /\ now > dl[d].expiryTime
        /\ dl[d].fileName \in DOMAIN files
        /\ OnStorage(dl[d].fileName)
        /\ \A u \in Uploads : up[u].newFileName = dl[d].fileName
                                => tm[u].pc \in {"none", "pending"}

\* C3: uploads that succeed get pairwise distinct links, and a download of
\* one upload's link never returns the different content of another upload.
C3_DistinctLinks ==
    /\ \A u, v \in Uploads :
          (u # v /\ Replied(u) /\ Replied(v)) => up[u].link # up[v].link
    /\ \A d \in Downloads, u, v \in Uploads :
          ( /\ dl[d].pc = "done" /\ dl[d].status = 200
            /\ dl[d].seen[u] = "replied"
            /\ dl[d].fileName = up[u].newFileName
            /\ up[v].newFileName # up[u].newFileName
            /\ up[v].content # up[u].content )
          => dl[d].body # up[v].content

\* C4: a download that has observed an unexpired registry entry opens the
\* file and gets the complete content of an upload registered under the name.
C4_EntryImpliesCompleteFile ==
    [][ \A d \in Downloads :
          (dl[d].pc = "open" /\ dl'[d].pc = "done")
          => /\ dl'[d].status = 200
             /\ \E u \in Uploads : /\ Registered(u)
                                   /\ up[u].newFileName = dl[d].fileName
                                   /\ dl'[d].body = up[u].content ]_vars

\* C5: a download of an uploaded file that starts after the file was
\* registered and ends before its expiresAt and before any physical deletion
\* of the name succeeds.
C5_DownloadBeforeExpiry ==
    \A d \in Downloads, u \in Uploads :
        ( /\ dl[d].pc = "done"
          /\ dl[d].seen[u] \in {"registered", "replied"}
          /\ dl[d].fileName = up[u].newFileName
          /\ now < up[u].expiresAt
          /\ ~DeletionRan(dl[d].fileName) )
        => dl[d].status = 200

\* a download of a registered, unexpired, undeleted file has been answered
C5_Witness ==
    \E d \in Downloads, u \in Uploads :
        /\ dl[d].pc = "done" /\ dl[d].status = 200
        /\ dl[d].seen[u] \in {"registered", "replied"}
        /\ dl[d].fileName = up[u].newFileName
        /\ dl[d].body = up[u].content
        /\ now < up[u].expiresAt
        /\ ~DeletionRan(dl[d].fileName)

\* C6: once the deleteFile scheduled for an upload of a name has returned,
\* every download of that name that starts later returns NotFound.
C6_NotFoundAfterDeletion ==
    \A d \in Downloads, u \in Uploads :
        ( /\ dl[d].pc = "done"
          /\ dl[d].seen[u] = "deleted"
          /\ dl[d].fileName = up[u].newFileName )
        => dl[d].status = 404

\* an upload of that name has written storage and not yet registered
UploadInProgress(fileName) ==
    \E u \in Uploads : up[u].newFileName = fileName /\ up[u].pc \in {"copy", "register"}

\* a deleteFile of that name holds the lock
DeleteInProgress(fileName) ==
    \E u \in Uploads : up[u].newFileName = fileName /\ tm[u].pc \in {"locked", "removed"}

\* an upload of that name has failed in io.Copy, after creating the file
UploadFailed(fileName) ==
    \E u \in Uploads : /\ up[u].newFileName = fileName
                       /\ up[u].pc = "done" /\ up[u].status = 500
                       /\ up[u].fd # 0

\* C7: outside an upload in progress and a deleteFile in progress of the
\* name, a file exists iff the registry holds an unexpired entry for it.
C7_FileIffUnexpiredEntry ==
    \A n \in Names :
        (~UploadInProgress(n) /\ ~DeleteInProgress(n))
        => (OnStorage(n) <=> (n \in DOMAIN files /\ now < files[n]))

\* C7 as amended: outside an upload in progress and a deleteFile in progress
\* of the name, a file on storage has a registry entry (expired or not),
\* unless an upload of that name failed after creating the file.
C7_FileImpliesEntry ==
    \A n \in Names :
        (~UploadInProgress(n) /\ ~DeleteInProgress(n) /\ ~UploadFailed(n))
        => (OnStorage(n) => n \in DOMAIN files)

\* a file whose entry has expired waits, untouched, for its timer
C7_Witness ==
    \E n \in Names :
        /\ ~UploadInProgress(n) /\ ~DeleteInProgress(n) /\ ~UploadFailed(n)
        /\ OnStorage(n) /\ n \in DOMAIN files /\ now >= files[n]

\* the deleteFile scheduled by upload u has returned
TimerRan(u) == tm[u].pc \in {"failed", "deleted"}

\* the file that upload u wrote is no longer reachable under any path
FileGone(u) == \A p \in DOMAIN dir : dir[p] # up[u].fd

\* the entry that upload u registered is no longer in the registry
EntryGone(u) ==
    \/ up[u].newFileName \notin DOMAIN files
    \/ files[up[u].newFileName] # up[u].expiresAt

\* C8: every upload that succeeds has a timer that fires, the file it stored
\* is eventually removed and its registry entry is eventually removed.
C8_EventuallyPurged ==
    \A u \in Uploads :
        /\ Replied(u) ~> TimerRan(u)
        /\ Replied(u) ~> FileGone(u)
        /\ Replied(u) ~> EntryGone(u)

\* C9: two successful downloads of the same name return the same bytes.
C9_SameBytes ==
    \A d, e \in Downloads :
        ( /\ dl[d].pc = "done" /\ dl[d].status = 200
          /\ dl[e].pc = "done" /\ dl[e].status = 200
          /\ dl[d].fileName = dl[e].fileName )
        => dl[d].body = dl[e].body

\* C10: an upload request whose method is not POST is answered 405 and
\* writes no file, registers no entry and sets no timer.
C10_MethodNotAllowed ==
    \A u \in Uploads :
        (up[u].pc = "done" /\ up[u].Method # "POST")
        => /\ up[u].status = 405
           /\ up[u].newFileName = ""
           /\ tm[u].pc = "none"

\* C11: an upload whose body is larger than the 10 MiB cap is answered 400
\* and leaves no file, no registry entry and no timer (up[u].content is the
\* body of a request that got past the parsing of the form).
C11_OversizeRejected ==
    \A u \in Uploads :
        (up[u].pc = "done" /\ Size(up[u].content) > maxMemory)
        => /\ up[u].status = 400
           /\ up[u].fd = 0 /\ up[u].expiresAt = 0
           /\ tm[u].pc = "none"

\* extensions that cannot leave a directory: empty, or a dot followed by
\* characters that are neither a dot nor a separator
SafeExts ==
    { e \in ShortNames \cup {<<>>} :
        e = <<>> \/ (e[1] = "." /\ \A i \in 2..Len(e) : e[i] \notin {".", "/"}) }

\* simplehost-<unixSeconds><ext> for the safe extensions
SafeNames ==
    { "simplehost-" \o ToString(t) \o Chars(e) : t \in 0..Unix(MaxTime), e \in SafeExts }

\* no upload has ever registered that name
NeverUploaded(fileName) ==
    \A u \in Uploads : up[u].newFileName = fileName => up[u].expiresAt = 0

\* C12: a download opens a file only when its fileName was a registry key at
\* the lookup, every registry key is a generated name without separator or
\* parent-directory component, and a download of a name never uploaded
\* (such as ../x) is answered NotFound.
C12_DownloadConfined ==
    /\ \A d \in Downloads :
          (dl[d].pc = "open" \/ dl[d].status = 200)
          => (dl[d].exists /\ ~NeverUploaded(dl[d].fileName))
    /\ DOMAIN files \subseteq SafeNames
    /\ \A d \in Downloads :
          (dl[d].pc = "done" /\ dl[d].fileName # "" /\ NeverUploaded(dl[d].fileName))
          => dl[d].status = 404

\* a name with a parent-directory component was asked for and refused while
\* an upload whose original file name has a separator is registered
C12_Witness ==
    /\ dl[1].pc = "done" /\ dl[1].fileName = "../x" /\ dl[1].status = 404
    /\ up[1].expiresAt # 0
    /\ \E i \in 1..Len(up[1].Filename) : up[1].Filename[i] = "/"
    /\ up[1].newFileName \in DOMAIN files

\* the extension as the documentation of filepath.Ext states it: the suffix
\* beginning at the final dot in the final element of the path, empty if
\* there is no dot
DocExt(f) ==
    LET seps == { i \in 1..Len(f) : f[i] = "/" }
        dots == { i \in 1..Len(f) : f[i] = "." /\ \A j \in seps : j < i }
    IN  IF dots = {} THEN ""
        ELSE Chars(SubSeq(f, CHOOSE i \in dots : \A j \in dots : j <= i, Len(f)))

\* C13: an upload of original file name f that reaches line 81 at Unix
\* second t is named simplehost-<t><ext(f)>, and the link of its success
\* reply is /download?file=<that name>.
C13_NameAndLink ==
    [][ \A u \in Uploads :
          /\ (up[u].pc = "idle" /\ up'[u].pc = "create")
             => up'[u].newFileName =
                  "simplehost-" \o ToString(Unix(now)) \o DocExt(up'[u].Filename)
          /\ (up[u].pc = "schedule" /\ up'[u].pc = "done")
             => /\ up'[u].newFileName = up[u].newFileName
                /\ up'[u].link = "/download?file=" \o up[u].newFileName ]_vars

\* the upload of "r.r" in second 1 has been answered with its link
C13_Witness ==
    /\ Replied(1)
    /\ up[1].Filename = <<"r", ".", "r">>
    /\ up[1].link = "/download?file=simplehost-1.r"

\* C14: when os.Remove fails, deleteFile leaves the registry, the storage and
\* every request as they are and just returns; when it succeeds, deleteFile
\* still holds the lock and gives it up only with the entry deleted.
C14_DeleteFile ==
    [][ \A u \in Uploads :
          /\ (tm[u].pc = "locked" /\ tm'[u].pc = "failed")
             => (files' = files /\ dir' = dir /\ data' = data /\ up' = up /\ dl' = dl)
          /\ (tm[u].pc = "locked" /\ tm'[u].pc = "removed")
             => (mu' = u /\ files' = files)
          /\ (tm[u].pc = "removed" /\ mu = u /\ mu' # u)
             => up[u].newFileName \notin DOMAIN files' ]_vars

\* a deleteFile found its file already removed and returned, and the entry
\* of that name is still in the registry
C14_Witness ==
    \E u \in Uploads :
        /\ tm[u].pc = "failed"
        /\ up[u].newFileName \in DOMAIN files
        /\ mu = 0

\* a deleteFile of that name has deleted the registry entry
EntryDeleted(fileName) ==
    \E u \in Uploads : up[u].newFileName = fileName /\ tm[u].pc = "deleted"

\* the place of a file name in PENDING (0), UPLOADED (1), EXPIRED_LOGICAL (2),
\* DELETED (3), read off the registry, the clock and the timers
Lifecycle(fileName) ==
    IF fileName \in DOMAIN files
    THEN (IF After(now, files[fileName]) THEN 2 ELSE 1)
    ELSE (IF EntryDeleted(fileName) THEN 3 ELSE 0)

\* C15: the lifecycle of a file name is monotone: no step takes a name back
\* to an earlier state; in particular a name whose entry deleteFile has
\* deleted never has an entry again.
C15_LifecycleMonotone ==
    [][ \A fileName \in Names :
          /\ Lifecycle(fileName)' >= Lifecycle(fileName)
          /\ EntryDeleted(fileName) => fileName \notin DOMAIN files' ]_vars

\* C16: the expiresAt of a registered file name never changes while the name
\* stays in the registry.
C16_ExpiresAtFixed ==
    [][ \A fileName \in DOMAIN files \cap DOMAIN files' :
          files'[fileName] = files[fileName] ]_vars

\* the paths whose bytes an upload has stored and registered
StoredPaths ==
    { path \in DOMAIN dir :
        \E u \in Uploads : /\ Registered(u)
                           /\ path = Join(storagePath, up[u].newFileName)
                           /\ dir[path] = up[u].fd }

\* C17: only deleteFile removes a registry entry or a stored file; a step of
\* a download changes neither registry nor storage; no step of an upload
\* removes an entry or changes the bytes that a previous upload stored.
C17_OnlyDeleteFileRemoves ==
    [][ /\ (DOMAIN files \ DOMAIN files' # {})
           => \E u \in Uploads : tm[u].pc = "removed" /\ tm'[u].pc = "deleted"
        /\ (DOMAIN dir \ DOMAIN dir' # {})
           => \E u \in Uploads : tm[u].pc = "locked" /\ tm'[u].pc = "removed"
        /\ (dl' # dl) => (files' = files /\ dir' = dir /\ data' = data)
        /\ \A path \in StoredPaths :
              path \in DOMAIN dir' => data'[dir'[path]] = data[dir[path]] ]_vars

\* C18: the registry lock is held only for a map access: no task performs a
\* storage operation while it holds the lock.  Uploads and downloads take
\* and release the lock within their one registry step, so a lock held
\* between steps is held by a deleteFile, whose storage operation is the
\* os.Remove that takes it from "locked" to "removed" or "failed".
C18_NoStorageUnderLock ==
    [][ \A u \in Uploads :
          (tm[u].pc = "locked" /\ tm'[u].pc \in {"removed", "failed"}) => mu # u ]_vars

\* C18, amended: between steps the lock is held by a deleteFile only, and a
\* deleteFile holds it from its entry to its return, os.Remove included; no
\* upload and no download holds it outside its own registry access.
C18_LockHeldByDeleteFileOnly ==
    /\ mu # 0 => tm[mu].pc \in {"locked", "removed"}
    /\ \A u \in Uploads : tm[u].pc \in {"locked", "removed"} => mu = u

\* a deleteFile holds the lock after its os.Remove while an upload is at its
\* registration and has to wait for the lock
C18_Witness ==
    /\ mu # 0
    /\ tm[mu].pc = "removed"
    /\ \E u \in Uploads : up[u].pc = "register"

\* upload u is over without the reply that carries a link
UploadRefused(u) == up[u].pc = "done" /\ ~Replied(u)

\* C19: an upload has a registry entry to its name exactly when it got past
\* every failing path, and a timer exactly when it was answered with its
\* link; an upload that ended on a failing path has registered nothing and
\* has no timer, and every registry entry was written by an upload that
\* succeeded.
C19_EntryAndTimerIffSuccess ==
    /\ \A u \in Uploads :
          /\ (up[u].expiresAt # 0) <=> Registered(u)
          /\ (tm[u].pc # "none") <=> Replied(u)
          /\ UploadRefused(u) => (up[u].expiresAt = 0 /\ tm[u].pc = "none")
    /\ \A fileName \in DOMAIN files :
          \E u \in Uploads : /\ Registered(u)
                             /\ up[u].newFileName = fileName
                             /\ up[u].expiresAt = files[fileName]

\* an upload failed while writing: its partial file is on storage, and there
\* is neither an entry to its name nor a timer
C19_Witness ==
    \E u \in Uploads :
        /\ up[u].pc = "done" /\ up[u].status = 500
        /\ OnStorage(up[u].newFileName)
        /\ up[u].newFileName \notin DOMAIN files
        /\ tm[u].pc = "none"

\* C20: whenever deleteFile removes the file of a name, the registry entry
\* held for that name, if there is one, has expired (now >= expiresAt).
C20_ExpiryBeforeDeletion ==
    [][ \A u \in Uploads :
          (tm[u].pc = "locked" /\ tm'[u].pc = "removed")
          => (up[u].newFileName \in DOMAIN files
                => now >= files[up[u].newFileName]) ]_vars

====
